---- MODULE Spec2Model ----
(***************************************************************************)
(* Model of firebase_functions.params (the Expression/Param algebra and    *)
(* the process-wide param registry) and firebase_functions.private.manifest*)
(* (the manifest serializer).                                              *)
(*                                                                         *)
(* Python values are tagged records [t, v]:                                *)
(*   None  [t |-> "none",  v |-> 0]                                        *)
(*   str   [t |-> "str",   v |-> <<c1, ..., cn>>]   (one-character strings)*)
(*   int   [t |-> "int",   v |-> n]                                        *)
(*   bool  [t |-> "bool",  v |-> TRUE/FALSE]                               *)
(*   float [t |-> "float", v |-> [s, m, e]]  s in fin/inf/nan, m * 10^e    *)
(*   list  [t |-> "list",  v |-> <<str value, ...>>]                       *)
(* A raised exception is [t |-> "error", v |-> <<class, ...>>].            *)
(***************************************************************************)
EXTENDS Integers, Sequences, FiniteSets, TLC

VARIABLES params, environ, manifest, served, last, threads

vars == <<params, environ, manifest, served, last, threads>>

---------------------------------------------------------------------------
(* Python values *)

None == [t |-> "none", v |-> 0]
PyStr(s) == [t |-> "str", v |-> s]
PyInt(n) == [t |-> "int", v |-> n]
PyBool(b) == [t |-> "bool", v |-> b]
PyList(l) == [t |-> "list", v |-> l]
Fin(m, e) == [t |-> "float", v |-> [s |-> "fin", m |-> m, e |-> e]]
Inf(neg) == [t |-> "float", v |-> [s |-> "inf", m |-> IF neg THEN -1 ELSE 1, e |-> 0]]
NaN == [t |-> "float", v |-> [s |-> "nan", m |-> 0, e |-> 0]]
Raise(cls) == [t |-> "error", v |-> cls]
IsError(r) == r.t = "error"
IsNone(x) == x.t = "none"

---------------------------------------------------------------------------
(* Characters and strings. A string is a sequence of one-character strings. *)

UpperSeq == <<"A","B","C","D","E","F","G","H","I","J","K","L","M",
              "N","O","P","Q","R","S","T","U","V","W","X","Y","Z">>
LowerSeq == <<"a","b","c","d","e","f","g","h","i","j","k","l","m",
              "n","o","p","q","r","s","t","u","v","w","x","y","z">>
DigitSeq == <<"0","1","2","3","4","5","6","7","8","9">>

Range(s) == {s[i] : i \in 1..Len(s)}
IsUpper(c) == c \in Range(UpperSeq)
IsDigit(c) == c \in Range(DigitSeq)
IndexOf(c, s) == CHOOSE i \in 1..Len(s) : s[i] = c
DigitVal(c) == IndexOf(c, DigitSeq) - 1

\* str.lower(), on the ASCII letters
LowerChar(c) == IF IsUpper(c) THEN LowerSeq[IndexOf(c, UpperSeq)] ELSE c
Lower(s) == [i \in 1..Len(s) |-> LowerChar(s[i])]

\* the whitespace int() and float() strip from both ends
IsSpace(c) == c \in {" ", "\t", "\n"}

RECURSIVE LStrip(_)
LStrip(s) == IF s # <<>> /\ IsSpace(Head(s)) THEN LStrip(Tail(s)) ELSE s

RECURSIVE RStrip(_)
RStrip(s) ==
    IF s # <<>> /\ IsSpace(s[Len(s)]) THEN RStrip(SubSeq(s, 1, Len(s) - 1)) ELSE s

Strip(s) == RStrip(LStrip(s))

\* a run of decimal digits in which single underscores may separate digits
DigitsOK(s) ==
    /\ s # <<>>
    /\ \A i \in 1..Len(s) : IsDigit(s[i]) \/ s[i] = "_"
    /\ IsDigit(s[1]) /\ IsDigit(s[Len(s)])
    /\ \A i \in 1..(Len(s) - 1) : ~(s[i] = "_" /\ s[i + 1] = "_")

RECURSIVE DigitsValue(_, _)
DigitsValue(s, acc) ==
    IF s = <<>> THEN acc
    ELSE IF Head(s) = "_" THEN DigitsValue(Tail(s), acc)
    ELSE DigitsValue(Tail(s), acc * 10 + DigitVal(Head(s)))

HasSign(s) == s # <<>> /\ Head(s) \in {"+", "-"}
Unsigned(s) == IF HasSign(s) THEN Tail(s) ELSE s
SignOf(s) == IF s # <<>> /\ Head(s) = "-" THEN -1 ELSE 1

\* int(s) for a str s
ParseInt(s) ==
    LET u == Strip(s)
        body == Unsigned(u)
    IN  IF DigitsOK(body) THEN PyInt(SignOf(u) * DigitsValue(body, 0))
        ELSE Raise(<<"ValueError", "int">>)

\* float(s) for a str s: the value is the exact decimal m * 10^e (binary
\* rounding and overflow beyond the double range are not represented)
RECURSIVE Normalize(_, _)
Normalize(m, e) ==
    IF m = 0 THEN Fin(0, 0)
    ELSE IF m % 10 = 0 THEN Normalize(m \div 10, e + 1)
    ELSE Fin(m, e)

FirstIndex(s, cs) ==
    IF \E i \in 1..Len(s) : s[i] \in cs
    THEN CHOOSE i \in 1..Len(s) : s[i] \in cs /\ \A j \in 1..(i - 1) : s[j] \notin cs
    ELSE 0

OptDigits(s) == s = <<>> \/ DigitsOK(s)

StrInf == <<"i","n","f">>
StrInfinity == <<"i","n","f","i","n","i","t","y">>
StrNan == <<"n","a","n">>

ParseFloat(s) ==
    LET u == Strip(s)
        body == Unsigned(u)
        low == Lower(body)
        ePos == FirstIndex(body, {"e", "E"})
        mant == IF ePos = 0 THEN body ELSE SubSeq(body, 1, ePos - 1)
        expo == IF ePos = 0 THEN <<>> ELSE SubSeq(body, ePos + 1, Len(body))
        dot == FirstIndex(mant, {"."})
        ip == IF dot = 0 THEN mant ELSE SubSeq(mant, 1, dot - 1)
        fp == IF dot = 0 THEN <<>> ELSE SubSeq(mant, dot + 1, Len(mant))
        mantOK == /\ OptDigits(ip) /\ OptDigits(fp)
                  /\ ~(ip = <<>> /\ fp = <<>>)
        expoOK == ePos = 0 \/ DigitsOK(Unsigned(expo))
        nFrac == Cardinality({i \in 1..Len(fp) : IsDigit(fp[i])})
        expVal == IF ePos = 0 THEN 0 ELSE SignOf(expo) * DigitsValue(Unsigned(expo), 0)
    IN  IF low \in {StrInf, StrInfinity} THEN Inf(SignOf(u) = -1)
        ELSE IF low = StrNan THEN NaN
        ELSE IF mantOK /\ expoOK
             THEN Normalize(SignOf(u) * DigitsValue(ip \o fp, 0), expVal - nFrac)
        ELSE Raise(<<"ValueError", "float">>)

\* s.split(sep) for a one-character separator: always at least one segment
RECURSIVE Split(_, _)
Split(s, sep) ==
    LET i == FirstIndex(s, {sep})
    IN  IF i = 0 THEN <<s>>
        ELSE <<SubSeq(s, 1, i - 1)>> \o Split(SubSeq(s, i + 1, Len(s)), sep)

\* list(filter(len, l))
RECURSIVE FilterLen(_)
FilterLen(l) ==
    IF l = <<>> THEN <<>>
    ELSE IF Len(Head(l)) # 0 THEN <<Head(l)>> \o FilterLen(Tail(l))
    ELSE FilterLen(Tail(l))

\* sep.join(l)
RECURSIVE Join(_, _)
Join(l, sep) ==
    IF l = <<>> THEN <<>>
    ELSE IF Len(l) = 1 THEN l[1]
    ELSE l[1] \o sep \o Join(Tail(l), sep)

---------------------------------------------------------------------------
(* Python comparison of two values *)

AsciiSeq == <<"\t", "\n", " ", "\"", "'", "+", ",", "-", ".",
              "0","1","2","3","4","5","6","7","8","9", ":", "<", "=", ">", "?",
              "A","B","C","D","E","F","G","H","I","J","K","L","M",
              "N","O","P","Q","R","S","T","U","V","W","X","Y","Z", "[", "]", "_",
              "a","b","c","d","e","f","g","h","i","j","k","l","m",
              "n","o","p","q","r","s","t","u","v","w","x","y","z", "{", "}">>
Ord(c) == IndexOf(c, AsciiSeq)

RECURSIVE StrLess(_, _)
StrLess(a, b) ==
    IF b = <<>> THEN FALSE
    ELSE IF a = <<>> THEN TRUE
    ELSE IF Head(a) = Head(b) THEN StrLess(Tail(a), Tail(b))
    ELSE Ord(Head(a)) < Ord(Head(b))

RECURSIVE ListLess(_, _)
ListLess(a, b) ==
    IF b = <<>> THEN FALSE
    ELSE IF a = <<>> THEN TRUE
    ELSE IF Head(a) = Head(b) THEN ListLess(Tail(a), Tail(b))
    ELSE StrLess(Head(a), Head(b))

IsNumber(x) == x.t \in {"int", "bool", "float"}
IsNaN(x) == x.t = "float" /\ x.v.s = "nan"

\* a number as [s, m, e]: bool is a subclass of int
AsFloat(x) ==
    IF x.t = "int" THEN Normalize(x.v, 0).v
    ELSE IF x.t = "bool" THEN (IF x.v THEN Fin(1, 0).v ELSE Fin(0, 0).v)
    ELSE x.v

RECURSIVE Pow10(_)
Pow10(n) == IF n = 0 THEN 1 ELSE 10 * Pow10(n - 1)

NumLess(x, y) ==
    LET a == AsFloat(x)
        b == AsFloat(y)
        k == IF a.e < b.e THEN a.e ELSE b.e
    IN  IF a.s = "nan" \/ b.s = "nan" THEN FALSE
        ELSE IF a.s = "inf" THEN a.m < 0 /\ ~(b.s = "inf" /\ b.m < 0)
        ELSE IF b.s = "inf" THEN b.m > 0
        ELSE a.m * Pow10(a.e - k) < b.m * Pow10(b.e - k)

NumEq(x, y) == ~IsNaN(x) /\ ~IsNaN(y) /\ AsFloat(x) = AsFloat(y)

\* left == right
PyEq(x, y) ==
    IF IsNumber(x) /\ IsNumber(y) THEN NumEq(x, y)
    ELSE x.t = y.t /\ x = y

Orderable(x, y) ==
    \/ IsNumber(x) /\ IsNumber(y)
    \/ x.t = "str" /\ y.t = "str"
    \/ x.t = "list" /\ y.t = "list"

\* left < right, for Orderable(left, right)
PyLess(x, y) ==
    IF IsNumber(x) THEN NumLess(x, y)
    ELSE IF x.t = "str" THEN StrLess(x.v, y.v)
    ELSE ListLess(x.v, y.v)

\* bool(x)
Truthy(x) ==
    IF x.t = "bool" THEN x.v
    ELSE IF x.t = "int" THEN x.v # 0
    ELSE IF x.t = "float" THEN ~(x.v.s = "fin" /\ x.v.m = 0)
    ELSE IF x.t \in {"str", "list"} THEN x.v # <<>>
    ELSE FALSE

---------------------------------------------------------------------------
(* Expressions: params, CompareExpression, TernaryExpression.               *)
(* An object is a record whose cls field names its class.                   *)

ParamSubclasses ==
    {"StringParam", "IntParam", "FloatParam", "BoolParam", "ListParam",
     "_DefaultStringParam"}

\* isinstance(e, Param), isinstance(e, StringParam), isinstance(e, Expression)
IsParam(e) == e.cls \in ParamSubclasses \cup {"Param"}
IsStringParam(e) == e.cls \in {"StringParam", "_DefaultStringParam"}
IsExpression(e) ==
    IsParam(e) \/ e.cls \in {"SecretParam", "CompareExpression", "TernaryExpression"}

\* Param(name, default, label, description, immutable) of class cls
NewParam(cls, name, default, label) ==
    [cls |-> cls, name |-> name, default |-> default, label |-> label,
     description |-> None, immutable |-> None]

\* SecretParam(name, label, description, immutable): it has no default field
NewSecretParam(name, label) ==
    [cls |-> "SecretParam", name |-> name, label |-> label,
     description |-> None, immutable |-> None]

CompareExpression(comparator, left, right) ==
    [cls |-> "CompareExpression", comparator |-> comparator, left |-> left,
     right |-> right]

TernaryExpression(test, if_true, if_false) ==
    [cls |-> "TernaryExpression", test |-> test, if_true |-> if_true,
     if_false |-> if_false]

\* Param.compare / SecretParam.compare, Param.equals / SecretParam.equals
compare(self, op, right) == CompareExpression(op, self, right)
equals(self, right) == compare(self, <<"=", "=">>, right)

\* CompareExpression.then
then(self, if_true, if_false) == TernaryExpression(self, if_true, if_false)

\* os.environ.get(name) is not None
EnvHas(env, name) == name \in DOMAIN env

\* StringParam.value with the default tried before the environment
StringParam_valueDefaultFirst(self, env) ==
    IF ~IsNone(self.default) THEN self.default
    ELSE IF EnvHas(env, self.name) THEN PyStr(env[self.name])
    ELSE PyStr(<<>>)

StringParam_value(self, env) ==
    IF EnvHas(env, self.name) THEN PyStr(env[self.name])
    ELSE IF ~IsNone(self.default) THEN self.default
    ELSE PyStr(<<>>)

\* IntParam.value without its last return
IntParam_valueNoZero(self, env) ==
    IF EnvHas(env, self.name) THEN ParseInt(env[self.name])
    ELSE self.default

\* IntParam.value testing the entry for truth, not for presence
IntParam_valueEmptyAbsent(self, env) ==
    IF EnvHas(env, self.name) /\ env[self.name] # <<>> THEN ParseInt(env[self.name])
    ELSE IF ~IsNone(self.default) THEN self.default
    ELSE PyInt(0)

IntParam_value(self, env) ==
    IF EnvHas(env, self.name) THEN ParseInt(env[self.name])
    ELSE IF ~IsNone(self.default) THEN self.default
    ELSE PyInt(0)

FloatParam_value(self, env) ==
    IF EnvHas(env, self.name) THEN ParseFloat(env[self.name])
    ELSE IF ~IsNone(self.default) THEN self.default
    ELSE Fin(0, 0)

TrueTokens == {<<"t","r","u","e">>, <<"t">>, <<"1">>, <<"y">>, <<"y","e","s">>}
FalseTokens == {<<"f","a","l","s","e">>, <<"f">>, <<"0">>, <<"n">>, <<"n","o">>}

\* BoolParam.value comparing the entry without lower()
BoolParam_valueCaseSensitive(self, env) ==
    IF EnvHas(env, self.name)
    THEN IF env[self.name] \in TrueTokens THEN PyBool(TRUE)
         ELSE IF env[self.name] \in FalseTokens THEN PyBool(FALSE)
         ELSE Raise(<<"ValueError", "bool">>)
    ELSE IF ~IsNone(self.default) THEN self.default
    ELSE PyBool(FALSE)

BoolParam_value(self, env) ==
    IF EnvHas(env, self.name)
    THEN IF Lower(env[self.name]) \in TrueTokens THEN PyBool(TRUE)
         ELSE IF Lower(env[self.name]) \in FalseTokens THEN PyBool(FALSE)
         ELSE Raise(<<"ValueError", "bool">>)
    ELSE IF ~IsNone(self.default) THEN self.default
    ELSE PyBool(FALSE)

ListParam_value(self, env) ==
    IF EnvHas(env, self.name) THEN PyList(FilterLen(Split(env[self.name], ",")))
    ELSE IF ~IsNone(self.default) THEN self.default
    ELSE PyList(<<>>)

\* os.environ.get(self.name, "")
SecretParam_value(self, env) ==
    IF EnvHas(env, self.name) THEN PyStr(env[self.name]) ELSE PyStr(<<>>)

OpEq == <<"=", "=">>
OpGt == <<">">>
OpGe == <<">", "=">>
OpLt == <<"<">>
OpLe == <<"<", "=">>

\* the dispatch with ">=" evaluated as ">"
CompareExpression_applyGeAsGt(comparator, left, right) ==
    IF IsError(left) THEN left
    ELSE IF comparator = OpEq THEN PyBool(PyEq(left, right))
    ELSE IF comparator \in {OpGt, OpGe, OpLt, OpLe}
         THEN IF ~Orderable(left, right) THEN Raise(<<"TypeError", "order">>)
              ELSE IF comparator \in {OpGt, OpGe} THEN PyBool(PyLess(right, left))
              ELSE IF comparator = OpLt THEN PyBool(PyLess(left, right))
              ELSE PyBool(PyLess(left, right) \/ PyEq(left, right))
    ELSE Raise(<<"ValueError", "comparator">>)

\* the comparator dispatch of CompareExpression.value, given left.value()
CompareExpression_apply(comparator, left, right) ==
    IF IsError(left) THEN left
    ELSE IF comparator = OpEq THEN PyBool(PyEq(left, right))
    ELSE IF comparator \in {OpGt, OpGe, OpLt, OpLe}
         THEN IF ~Orderable(left, right) THEN Raise(<<"TypeError", "order">>)
              ELSE IF comparator = OpGt THEN PyBool(PyLess(right, left))
              ELSE IF comparator = OpGe
                   THEN PyBool(PyLess(right, left) \/ PyEq(left, right))
              ELSE IF comparator = OpLt THEN PyBool(PyLess(left, right))
              ELSE PyBool(PyLess(left, right) \/ PyEq(left, right))
    ELSE Raise(<<"ValueError", "comparator">>)

\* the selection of TernaryExpression.value, given test.value()
TernaryExpression_select(test, if_true, if_false) ==
    IF IsError(test) THEN test
    ELSE IF Truthy(test) THEN if_true
    ELSE if_false

\* e.value(), dispatched on the class of e
RECURSIVE value(_, _)
value(e, env) ==
    IF e.cls = "CompareExpression"
    THEN CompareExpression_apply(e.comparator, value(e.left, env), e.right)
    ELSE IF e.cls = "TernaryExpression"
    THEN TernaryExpression_select(value(e.test, env), e.if_true, e.if_false)
    ELSE IF e.cls = "SecretParam" THEN SecretParam_value(e, env)
    ELSE IF IsStringParam(e) THEN StringParam_value(e, env)
    ELSE IF e.cls = "IntParam" THEN IntParam_value(e, env)
    ELSE IF e.cls = "FloatParam" THEN FloatParam_value(e, env)
    ELSE IF e.cls = "BoolParam" THEN BoolParam_value(e, env)
    ELSE IF e.cls = "ListParam" THEN ListParam_value(e, env)
    ELSE Raise(<<"NotImplementedError">>)

---------------------------------------------------------------------------
(* Rendering: __str__, _quote_if_string, to_cel *)

\* str(n) for an int n
RECURSIVE NatStr(_)
NatStr(n) ==
    IF n < 10 THEN <<DigitSeq[n + 1]>>
    ELSE NatStr(n \div 10) \o <<DigitSeq[(n % 10) + 1]>>

IntStr(n) == IF n < 0 THEN <<"-">> \o NatStr(-n) ELSE NatStr(n)

Zeros(n) == [i \in 1..n |-> "0"]

\* repr(x) for a float x = m * 10^e in the positional range 1e-4 <= |x| < 1e16
FloatStr(f) ==
    LET sign == IF f.m < 0 THEN <<"-">> ELSE <<>>
        digits == NatStr(IF f.m < 0 THEN -f.m ELSE f.m)
        n == Len(digits)
    IN  IF f.s = "nan" THEN StrNan
        ELSE IF f.s = "inf" THEN sign \o StrInf
        ELSE IF f.e >= 0 THEN sign \o digits \o Zeros(f.e) \o <<".", "0">>
        ELSE IF -f.e < n
             THEN sign \o SubSeq(digits, 1, n + f.e) \o <<".">>
                       \o SubSeq(digits, n + f.e + 1, n)
        ELSE sign \o <<"0", ".">> \o Zeros(-f.e - n) \o digits

\* repr(s) for a str s without quotes or backslashes
StrRepr(s) == <<"'">> \o s \o <<"'">>

RECURSIVE ListItems(_)
ListItems(l) ==
    IF l = <<>> THEN <<>>
    ELSE IF Len(l) = 1 THEN StrRepr(l[1])
    ELSE StrRepr(l[1]) \o <<",", " ">> \o ListItems(Tail(l))

\* format(x, "") as an f-string field applies it to a value
Format(x) ==
    IF x.t = "str" THEN x.v
    ELSE IF x.t = "int" THEN IntStr(x.v)
    ELSE IF x.t = "bool" THEN (IF x.v THEN <<"T","r","u","e">> ELSE <<"F","a","l","s","e">>)
    ELSE IF x.t = "float" THEN FloatStr(x.v)
    ELSE IF x.t = "list" THEN <<"[">> \o ListItems(x.v) \o <<"]">>
    ELSE <<"N","o","n","e">>

\* _quote_if_string quoting every literal
_quote_if_stringAlways(literal) ==
    PyStr(<<"\"">> \o Format(literal) \o <<"\"">>)

_quote_if_string(literal) ==
    IF literal.t # "str" THEN literal
    ELSE PyStr(<<"\"">> \o literal.v \o <<"\"">>)

StrParamsDot == <<"p","a","r","a","m","s",".">>

\* Param.__str__ and SecretParam.__str__
Param_str(self) == StrParamsDot \o self.name

\* str(e): CompareExpression.__str__, TernaryExpression.__str__, Param.__str__
RECURSIVE str(_)
str(e) ==
    IF e.cls = "CompareExpression"
    THEN str(e.left) \o <<" ">> \o e.comparator \o <<" ">>
             \o Format(_quote_if_string(e.right))
    ELSE IF e.cls = "TernaryExpression"
    THEN str(e.test) \o <<" ", "?", " ">> \o Format(_quote_if_string(e.if_true))
             \o <<" ", ":", " ">> \o Format(_quote_if_string(e.if_false))
    ELSE Param_str(e)

\* Expression.to_cel
to_cel(self) == <<"{", "{", " ">> \o str(self) \o <<" ", "}", "}">>

---------------------------------------------------------------------------
(* The param registry _params and construction (__post_init__) *)

IsNameChar(c) == IsUpper(c) \/ IsDigit(c) \/ c = "_"

\* re.match(r"^[A-Z0-9_]+$", name): "$" also matches before a final newline
NameMatches(name) ==
    LET core == IF name # <<>> /\ name[Len(name)] = "\n"
                THEN SubSeq(name, 1, Len(name) - 1) ELSE name
    IN  core # <<>> /\ \A i \in 1..Len(core) : IsNameChar(core[i])

ErrName == Raise(<<"ValueError", "name">>)
ErrDuplicate == Raise(<<"ValueError", "duplicate">>)

\* Register without the membership check: a second param replaces the first
RegisterOverwrite(self, registry) ==
    IF ~NameMatches(self.name) THEN [registry |-> registry, out |-> ErrName]
    ELSE [registry |-> (self.name :> self) @@ registry, out |-> None]

\* the checks and the insertion shared by Param and SecretParam:
\* the registry afterwards and what was raised (None: nothing)
Register(self, registry) ==
    IF ~NameMatches(self.name) THEN [registry |-> registry, out |-> ErrName]
    ELSE IF self.name \in DOMAIN registry
    THEN [registry |-> registry, out |-> ErrDuplicate]
    ELSE [registry |-> (self.name :> self) @@ registry, out |-> None]

Param_post_init(self, registry) ==
    IF self.cls = "_DefaultStringParam" THEN [registry |-> registry, out |-> None]
    ELSE Register(self, registry)

SecretParam_post_init(self, registry) == Register(self, registry)

---------------------------------------------------------------------------
(* Inputs *)

NameX == <<"X">>
NameY == <<"Y", "_", "1">>
ValidNames == {NameX, NameY}
\* accepted by the pattern through "$", although not upper-snake-case
NewlineNames == {<<"X", "\n">>}
InvalidNames == {<<>>, <<"x">>, <<"X", "-">>, <<"\n">>}
NameInputs == ValidNames \cup NewlineNames \cup InvalidNames

\* the public Param classes; Param itself can be instantiated
ParamClasses ==
    {"Param", "StringParam", "IntParam", "FloatParam", "BoolParam", "ListParam"}
\* the classes constructed when the registry itself is explored
RegistryClasses == {"IntParam", "BoolParam"}

StrA == <<"a">>
StrB == <<"b">>

DefaultsOf(cls) ==
    IF cls \in {"StringParam", "_DefaultStringParam"}
    THEN {None, PyStr(<<>>), PyStr(<<"d">>)}
    ELSE IF cls = "IntParam" THEN {None, PyInt(5)}
    ELSE IF cls = "FloatParam" THEN {None, Fin(15, -1)}
    ELSE IF cls = "BoolParam" THEN {None, PyBool(TRUE), PyBool(FALSE)}
    ELSE IF cls = "ListParam" THEN {None, PyList(<<>>), PyList(<<StrA, StrB>>)}
    ELSE {None}

---------------------------------------------------------------------------
(* Actions on the registry *)

\* cls(name, default=default): a Param subclass other than _DefaultStringParam
ConstructParam(cls, name, default) ==
    LET self == NewParam(cls, name, default, None)
        r == Param_post_init(self, params)
    IN  /\ params' = r.registry
        /\ last' = [op |-> "construct", self |-> self, out |-> r.out]
        /\ UNCHANGED <<environ, manifest, served, threads>>

\* SecretParam(name)
ConstructSecretParam(name) ==
    LET self == NewSecretParam(name, None)
        r == SecretParam_post_init(self, params)
    IN  /\ params' = r.registry
        /\ last' = [op |-> "construct", self |-> self, out |-> r.out]
        /\ UNCHANGED <<environ, manifest, served, threads>>

\* _DefaultStringParam(name, default=default)
ConstructDefaultParam(name, default) ==
    LET self == NewParam("_DefaultStringParam", name, default, None)
        r == Param_post_init(self, params)
    IN  /\ params' = r.registry
        /\ last' = [op |-> "construct", self |-> self, out |-> r.out]
        /\ UNCHANGED <<environ, manifest, served, threads>>

NoCall == [op |-> "none"]

\* no thread is inside a constructor
NoThreads == <<>>

\* the state after import: the module-level default params do not register
Init ==
    /\ params = <<>>
    /\ environ = <<>>
    /\ manifest = None
    /\ served = None
    /\ threads = NoThreads
    /\ last = NoCall

Next ==
    \/ \E cls \in RegistryClasses, name \in NameInputs :
           \E default \in DefaultsOf(cls) : ConstructParam(cls, name, default)
    \/ \E name \in NameInputs : ConstructSecretParam(name)
    \/ \E name \in NameInputs : ConstructDefaultParam(name, None)

Spec == Init /\ [][Next]_vars

---------------------------------------------------------------------------
(* Claims about the registry *)

\* a valid upper-snake-case name
UpperSnake(name) ==
    name # <<>> /\ \A i \in 1..Len(name) : IsNameChar(name[i])

\* C1: constructing a Param or SecretParam (not the internal default param)
\* whose valid upper-snake-case name is already registered raises the
\* duplicate error and leaves the registry as it was; with a valid name not
\* yet registered it succeeds and adds exactly that name, bound to the new
\* param, whichever of Param and SecretParam registered the others.
C1_DuplicateRejected ==
    [][(/\ last'.op = "construct"
        /\ last'.self.cls # "_DefaultStringParam"
        /\ UpperSnake(last'.self.name))
       => LET name == last'.self.name
          IN  IF name \in DOMAIN params
              THEN last'.out = ErrDuplicate /\ params' = params
              ELSE /\ last'.out = None
                   /\ DOMAIN params' = DOMAIN params \cup {name}
                   /\ params'[name] = last'.self
                   /\ \A n \in DOMAIN params : params'[n] = params[n]]_vars

\* a SecretParam was refused because an IntParam holds its name, which it
\* still holds, and a second name is registered
C1_Witness ==
    /\ last.op = "construct"
    /\ last.out = ErrDuplicate
    /\ last.self.cls = "SecretParam"
    /\ params[last.self.name].cls = "IntParam"
    /\ ValidNames \subseteq DOMAIN params

---------------------------------------------------------------------------
(* The environment and value() on a registered param *)

\* values the environment may hold for a name
EnvValues ==
    {<<>>, <<"1">>, <<"0">>, <<"5">>, <<"-", "1">>, <<" ", "7", "\n">>,
     <<"1", "_", "0">>, <<"0", "7">>, <<"a">>, <<"1", ".", "5">>, <<".", "5">>,
     <<"1", "e", "2">>, <<"n", "a", "N">>, <<"-", "i", "n", "f">>,
     <<"t">>, <<"T">>, <<"T", "R", "U", "E">>, <<"Y", "e", "s">>, <<"n", "o">>,
     <<"F", "a", "l", "s", "e">>, <<"m", "a", "y", "b", "e">>, <<"t", " ">>,
     <<"a", ",", "b">>, <<",", "a", ",", ",", "b", ",">>, <<",">>}

EnvNames == ValidNames

\* os.environ[name] = v, by the process or its caller between evaluations
SetEnv(name, v) ==
    /\ environ' = (name :> v) @@ environ
    /\ last' = NoCall
    /\ UNCHANGED <<params, manifest, served, threads>>

\* del os.environ[name]
DelEnv(name) ==
    /\ name \in DOMAIN environ
    /\ environ' = [n \in DOMAIN environ \ {name} |-> environ[n]]
    /\ last' = NoCall
    /\ UNCHANGED <<params, manifest, served, threads>>

\* p.value() for the registered param p named name
CallValue(name) ==
    /\ name \in DOMAIN params
    /\ last' = [op |-> "value", self |-> params[name],
                out |-> value(params[name], environ)]
    /\ UNCHANGED <<params, environ, manifest, served, threads>>

\* a registry holding one param, of any class and default
InitValue ==
    /\ \E cls \in ParamClasses : \E default \in DefaultsOf(cls) :
           params \in {Param_post_init(NewParam(cls, NameX, default, None), <<>>).registry,
                       SecretParam_post_init(NewSecretParam(NameX, None), <<>>).registry}
    /\ environ = <<>>
    /\ manifest = None
    /\ served = None
    /\ threads = NoThreads
    /\ last = NoCall

NextValue ==
    \/ \E name \in EnvNames, v \in EnvValues : SetEnv(name, v)
    \/ \E name \in EnvNames : DelEnv(name)
    \/ \E name \in DOMAIN params : CallValue(name)

SpecValue == InitValue /\ [][NextValue]_vars

---------------------------------------------------------------------------
(* Claims about value() on a param. They are stated with their own reading *)
(* of the coercions, not with the operators that model the code.           *)

ValueTypes ==
    {"StringParam", "IntParam", "FloatParam", "BoolParam", "ListParam", "SecretParam"}

\* the last step was value() on a param of one of the six public types
ValueCalled == last.op = "value" /\ last.self.cls \in ValueTypes
EntryPresent == ValueCalled /\ last.self.name \in DOMAIN environ
Entry == environ[last.self.name]
HasDefault(p) == "default" \in DOMAIN p /\ p.default.t # "none"

\* the numerals value() is asked to agree with: n and m * 10^e in small ranges
NumeralRange == 15
Numerals == (0 - NumeralRange)..NumeralRange
Exponents == (0 - 2)..1

\* the comma-free runs of s that no longer run contains, as <<first, last>>
Runs(s) ==
    {r \in (1..Len(s)) \X (1..Len(s)) :
        /\ r[1] <= r[2]
        /\ \A i \in r[1]..r[2] : s[i] # ","
        /\ (r[1] = 1 \/ s[r[1] - 1] = ",")
        /\ (r[2] = Len(s) \/ s[r[2] + 1] = ",")}

\* l lists the non-empty segments of s between commas, in order
IsSegmentsOf(l, s) ==
    /\ Len(l) = Cardinality(Runs(s))
    /\ \A r \in Runs(s) :
           l[1 + Cardinality({q \in Runs(s) : q[1] < r[1]})] = SubSeq(s, r[1], r[2])

SameIgnoringCase(a, b) ==
    /\ Len(a) = Len(b)
    /\ \A i \in 1..Len(a) :
           \/ a[i] = b[i]
           \/ \E k \in 1..26 : {a[i], b[i]} = {UpperSeq[k], LowerSeq[k]}

SpecTrue == {<<"t","r","u","e">>, <<"t">>, <<"1">>, <<"y">>, <<"y","e","s">>}
SpecFalse == {<<"f","a","l","s","e">>, <<"f">>, <<"0">>, <<"n">>, <<"n","o">>}
IsTrueToken(s) == \E tok \in SpecTrue : SameIgnoringCase(s, tok)
IsFalseToken(s) == \E tok \in SpecFalse : SameIgnoringCase(s, tok)

\* out is the entry s under the coercion declared for class cls
Coerced(cls, s, out) ==
    IF cls \in {"StringParam", "SecretParam"} THEN out = PyStr(s)
    ELSE IF cls = "IntParam"
    THEN /\ out.t \in {"int", "error"}
         /\ \A n \in Numerals : IntStr(n) = s => out = PyInt(n)
    ELSE IF cls = "FloatParam"
    THEN /\ out.t \in {"float", "error"}
         /\ \A m \in Numerals, e \in Exponents :
                (m % 10 # 0 /\ FloatStr(Fin(m, e).v) = s) => out = Fin(m, e)
    ELSE IF cls = "BoolParam"
    THEN /\ out.t \in {"bool", "error"}
         /\ IsTrueToken(s) => out = PyBool(TRUE)
         /\ IsFalseToken(s) => out = PyBool(FALSE)
    ELSE out.t = "list" /\ IsSegmentsOf(out.v, s)

\* C2: whenever the environment holds an entry for the param's name, value()
\* returns that entry under the type's coercion (raw string; integer parse;
\* float parse; boolean token; split on "," without the empty segments),
\* whatever the default; the entry is the one present when value() is called,
\* after any sequence of environment changes.
C2_EnvOverridesDefault ==
    EntryPresent => Coerced(last.self.cls, Entry, last.out)

\* an IntParam with default 5 returned 1 for the entry "1", which replaced
\* an earlier state of the environment
C2_Witness ==
    /\ EntryPresent
    /\ last.self.cls = "IntParam"
    /\ last.self.default = PyInt(5)
    /\ Entry = <<"1">>
    /\ last.out = PyInt(1)
    /\ NameY \in DOMAIN environ

ZeroValue(cls) ==
    IF cls \in {"StringParam", "SecretParam"} THEN PyStr(<<>>)
    ELSE IF cls = "IntParam" THEN PyInt(0)
    ELSE IF cls = "FloatParam" THEN Fin(0, 0)
    ELSE IF cls = "BoolParam" THEN PyBool(FALSE)
    ELSE PyList(<<>>)

\* C3: with no environment entry for the param's name, value() returns the
\* declared default if there is one and otherwise the zero value of the type
\* ("" for String and Secret, 0, 0.0, false, the empty list); it never raises.
C3_DefaultThenZero ==
    (ValueCalled /\ ~EntryPresent) =>
        last.out = IF HasDefault(last.self) THEN last.self.default
                   ELSE ZeroValue(last.self.cls)

\* a ListParam without default returned the empty list although another
\* name has an entry
C3_Witness ==
    /\ ValueCalled /\ ~EntryPresent
    /\ last.self.cls = "ListParam"
    /\ ~HasDefault(last.self)
    /\ last.out = PyList(<<>>)
    /\ NameY \in DOMAIN environ

\* C4: BoolParam.value() with an entry present returns true when the entry is,
\* ignoring case, one of true/t/1/y/yes, false when it is one of
\* false/f/0/n/no, and raises for every other entry (the empty string too),
\* also when the param declares a default.
C4_BoolTokens ==
    (EntryPresent /\ last.self.cls = "BoolParam") =>
        last.out = IF IsTrueToken(Entry) THEN PyBool(TRUE)
                   ELSE IF IsFalseToken(Entry) THEN PyBool(FALSE)
                   ELSE Raise(<<"ValueError", "bool">>)

\* a BoolParam with default true raised on the empty entry
C4_Witness ==
    /\ EntryPresent
    /\ last.self.cls = "BoolParam"
    /\ last.self.default = PyBool(TRUE)
    /\ Entry = <<>>
    /\ IsError(last.out)

\* a mixed-case token was accepted
C4_WitnessCase ==
    /\ EntryPresent
    /\ last.self.cls = "BoolParam"
    /\ Entry = <<"Y", "e", "s">>
    /\ last.out = PyBool(TRUE)

\* s without the whitespace at its two ends
Trimmed(s) ==
    LET ink == {i \in 1..Len(s) : s[i] \notin {" ", "\t", "\n"}}
    IN  IF ink = {} THEN <<>>
        ELSE SubSeq(s, CHOOSE i \in ink : \A j \in ink : i <= j,
                       CHOOSE i \in ink : \A j \in ink : j <= i)

\* digits, where an underscore may stand between two digits
IsDigitsText(d) ==
    /\ d # <<>>
    /\ \A i \in 1..Len(d) :
           \/ IsDigit(d[i])
           \/ /\ d[i] = "_" /\ 1 < i /\ i < Len(d)
              /\ IsDigit(d[i - 1]) /\ IsDigit(d[i + 1])

Signless(t) == IF t # <<>> /\ t[1] \in {"+", "-"} THEN SubSeq(t, 2, Len(t)) ELSE t

\* s is the text of an integer
IsIntText(s) == IsDigitsText(Signless(Trimmed(s)))

\* digits "." digits, with one of the two parts possibly missing
IsDecimalText(d) ==
    \/ IsDigitsText(d)
    \/ \E p \in 1..Len(d) :
           LET ip == SubSeq(d, 1, p - 1)
               fp == SubSeq(d, p + 1, Len(d))
           IN  /\ d[p] = "."
               /\ ip # <<>> \/ fp # <<>>
               /\ ip = <<>> \/ IsDigitsText(ip)
               /\ fp = <<>> \/ IsDigitsText(fp)

\* s is the text of a float: a decimal with an optional exponent, or one
\* of inf, infinity, nan
IsFloatText(s) ==
    LET d == Signless(Trimmed(s))
    IN  \/ \E w \in {<<"i","n","f">>, <<"i","n","f","i","n","i","t","y">>, <<"n","a","n">>} :
               SameIgnoringCase(d, w)
        \/ IsDecimalText(d)
        \/ \E k \in 1..Len(d) :
               /\ d[k] \in {"e", "E"}
               /\ IsDecimalText(SubSeq(d, 1, k - 1))
               /\ IsDigitsText(Signless(SubSeq(d, k + 1, Len(d))))

\* C10: a present entry is treated asymmetrically. StringParam.value()
\* returns the present entry, the empty string too, in preference to a
\* default; IntParam.value() and FloatParam.value() take only a present entry
\* that parses as a number, and a present entry that does not (the empty
\* string too) makes the evaluation fail with a conversion error instead of
\* giving the default or the zero value.
C10_PresentEntryAsymmetry ==
    EntryPresent =>
        /\ last.self.cls = "StringParam" => last.out = PyStr(Entry)
        /\ last.self.cls = "IntParam" =>
               IF IsIntText(Entry) THEN last.out.t = "int"
               ELSE last.out = Raise(<<"ValueError", "int">>)
        /\ last.self.cls = "FloatParam" =>
               IF IsFloatText(Entry) THEN last.out.t = "float"
               ELSE last.out = Raise(<<"ValueError", "float">>)

\* an IntParam with default 5 failed on the empty entry
C10_Witness ==
    /\ EntryPresent
    /\ last.self.cls = "IntParam"
    /\ last.self.default = PyInt(5)
    /\ Entry = <<>>
    /\ last.out = Raise(<<"ValueError", "int">>)

\* a StringParam with default "d" returned the empty entry
C10_WitnessString ==
    /\ EntryPresent
    /\ last.self.cls = "StringParam"
    /\ last.self.default = PyStr(<<"d">>)
    /\ Entry = <<>>
    /\ last.out = PyStr(<<>>)

---------------------------------------------------------------------------
(* Expressions over a registered param: value(), str(), to_cel() *)

\* comparators given to compare(): the five known ones and two unknown ones
ComparatorInputs == {OpEq, OpGt, OpGe, OpLt, OpLe, <<"!", "=">>, <<"=">>}

\* right-hand literals
RightInputs == {PyInt(3), PyInt(5), PyStr(<<"y">>), Fin(45, -1)}

\* the two branches given to then()
BranchInputs == {<<PyStr(StrA), PyStr(StrB)>>, <<PyInt(1), PyBool(FALSE)>>}

ExprEnvValues == {<<"y">>, <<"3">>, <<"5">>, <<"a">>}

\* e.value()
CallExprValue(e) ==
    /\ last' = [op |-> "value", self |-> e, out |-> value(e, environ)]
    /\ UNCHANGED <<params, environ, manifest, served, threads>>

\* str(e)
CallStr(e) ==
    /\ last' = [op |-> "str", self |-> e, out |-> PyStr(str(e))]
    /\ UNCHANGED <<params, environ, manifest, served, threads>>

\* e.to_cel()
CallToCel(e) ==
    /\ last' = [op |-> "to_cel", self |-> e, out |-> PyStr(to_cel(e))]
    /\ UNCHANGED <<params, environ, manifest, served, threads>>

\* the expressions built from param p: p, p.compare(op, right) and
\* p.compare(op, right).then(if_true, if_false)
CompareExprs(p) ==
    {compare(p, op, right) : op \in ComparatorInputs, right \in RightInputs}
TernaryExprs(p) ==
    {then(c, b[1], b[2]) : c \in CompareExprs(p), b \in BranchInputs}

ExprKinds == {"param", "compare", "ternary"}
ExprsOf(p, kind) ==
    IF kind = "param" THEN {p}
    ELSE IF kind = "compare" THEN CompareExprs(p)
    ELSE TernaryExprs(p)

ExprClasses == {"StringParam", "IntParam", "BoolParam"}

\* a registry holding one param
InitExpr ==
    /\ \E cls \in ExprClasses : \E default \in DefaultsOf(cls) :
           params \in {Param_post_init(NewParam(cls, NameX, default, None), <<>>).registry,
                       SecretParam_post_init(NewSecretParam(NameX, None), <<>>).registry}
    /\ environ = <<>>
    /\ manifest = None
    /\ served = None
    /\ threads = NoThreads
    /\ last = NoCall

NextExpr ==
    \/ \E v \in ExprEnvValues : SetEnv(NameX, v)
    \/ DelEnv(NameX)
    \/ \E name \in DOMAIN params, kind \in ExprKinds :
           \E e \in ExprsOf(params[name], kind) : CallExprValue(e)
    \/ \E name \in DOMAIN params, kind \in ExprKinds :
           \E e \in ExprsOf(params[name], kind) : CallStr(e)
    \/ \E name \in DOMAIN params, kind \in ExprKinds :
           \E e \in ExprsOf(params[name], kind) : CallToCel(e)

SpecExpr == InitExpr /\ [][NextExpr]_vars

---------------------------------------------------------------------------
(* Claims about expressions *)

\* a finite number as an integer count of hundredths
Hundredths(x) ==
    IF x.t = "int" THEN 100 * x.v
    ELSE IF x.t = "bool" THEN (IF x.v THEN 100 ELSE 0)
    ELSE IF x.v.e >= 0 THEN 100 * x.v.m * Pow10(x.v.e)
    ELSE IF x.v.e = 0 - 1 THEN 10 * x.v.m
    ELSE x.v.m

InHundredths(x) ==
    \/ x.t \in {"int", "bool"}
    \/ x.t = "float" /\ x.v.s = "fin" /\ x.v.e >= 0 - 2

\* the comparator applied to two numbers or to two strings under "=="
Applies(op, l, r, out) ==
    IF InHundredths(l) /\ InHundredths(r)
    THEN LET a == Hundredths(l)
             b == Hundredths(r)
         IN  out = PyBool(IF op = <<"=", "=">> THEN a = b
                          ELSE IF op = <<">">> THEN a > b
                          ELSE IF op = <<">", "=">> THEN a >= b
                          ELSE IF op = <<"<">> THEN a < b
                          ELSE a <= b)
    ELSE IF l.t = "str" /\ r.t = "str" /\ op = <<"=", "=">>
    THEN out = PyBool(l.v = r.v)
    ELSE IF l.t = r.t THEN out.t = "bool"
    ELSE out = IF op = <<"=", "=">> THEN PyBool(FALSE)
               ELSE Raise(<<"TypeError", "order">>)

KnownComparators == {<<"=", "=">>, <<">">>, <<">", "=">>, <<"<">>, <<"<", "=">>}

IntX5 == NewParam("IntParam", NameX, PyInt(5), None)
ExampleCompare == CompareExpression(<<">">>, IntX5, PyInt(3))
ExampleTernary == then(ExampleCompare, PyStr(<<"a">>), PyStr(<<"b">>))

\* C8: for each of ==, >, >=, <, <= CompareExpression.value() is that
\* comparator applied to the current left.value() and the right literal, and
\* with any other comparator it raises; TernaryExpression.value(), also when
\* built by then(), is if_true exactly when the value of its test is true and
\* if_false otherwise. IntParam X with default 5 and no entry compared ">" 3
\* is true, and .then("a", "b") on it is "a".
C8_CompareAndTernary ==
    /\ (last.op = "value" /\ last.self.cls = "CompareExpression") =>
           LET l == value(last.self.left, environ)
           IN  IF last.self.comparator \notin KnownComparators THEN IsError(last.out)
               ELSE IF IsError(l) THEN last.out = l
               ELSE Applies(last.self.comparator, l, last.self.right, last.out)
    /\ (last.op = "value" /\ last.self.cls = "TernaryExpression") =>
           LET t == value(last.self.test, environ)
           IN  IF IsError(t) THEN last.out = t
               ELSE last.out = IF t = PyBool(TRUE) THEN last.self.if_true
                               ELSE last.self.if_false
    /\ (last.op = "value" /\ NameX \notin DOMAIN environ) =>
           /\ last.self = ExampleCompare => last.out = PyBool(TRUE)
           /\ last.self = ExampleTernary => last.out = PyStr(<<"a">>)

\* the example: the ternary over X > 3 gave "a" with X left to its default 5
C8_Witness ==
    /\ last.op = "value"
    /\ last.self = ExampleTernary
    /\ NameX \notin DOMAIN environ
    /\ last.out = PyStr(<<"a">>)

\* an unknown comparator raised
C8_WitnessUnknown ==
    /\ last.op = "value"
    /\ last.self.cls = "CompareExpression"
    /\ last.self.comparator = <<"!", "=">>
    /\ last.out = Raise(<<"ValueError", "comparator">>)

\* a literal as it stands in a rendering
Literal(x) == IF x.t = "str" THEN <<"\"">> \o x.v \o <<"\"">> ELSE Format(x)

RECURSIVE Rendered(_)
Rendered(e) ==
    IF e.cls = "CompareExpression"
    THEN Rendered(e.left) \o <<" ">> \o e.comparator \o <<" ">> \o Literal(e.right)
    ELSE IF e.cls = "TernaryExpression"
    THEN Rendered(e.test) \o <<" ", "?", " ">> \o Literal(e.if_true)
             \o <<" ", ":", " ">> \o Literal(e.if_false)
    ELSE <<"p", "a", "r", "a", "m", "s", ".">> \o e.name

ExampleEquals == equals(NewParam("StringParam", NameX, None, None), PyStr(<<"y">>))
ExampleEqualsText ==
    <<"p", "a", "r", "a", "m", "s", ".", "X", " ", "=", "=", " ", "\"", "y", "\"">>

\* C9: rendering is structural. A param renders as params.<NAME>, a
\* CompareExpression as <left> <op> <right literal>, a TernaryExpression as
\* <test> ? <true literal> : <false literal>; a literal is in double quotes
\* exactly when it is a string, and the left or test side never is; String
\* param X compared "==" with "y" renders as params.X == "y"; the embedded
\* directive is the same text inside {{ and }}.
C9_Rendering ==
    /\ last.op = "str" => last.out = PyStr(Rendered(last.self))
    /\ last.op = "to_cel" =>
           last.out = PyStr(<<"{", "{", " ">> \o Rendered(last.self) \o <<" ", "}", "}">>)
    /\ (last.op = "str" /\ last.self = ExampleEquals) =>
           last.out = PyStr(ExampleEqualsText)

\* the example was rendered
C9_Witness ==
    /\ last.op = "str"
    /\ last.self = ExampleEquals
    /\ last.out = PyStr(ExampleEqualsText)

\* a ternary with an integer and a boolean branch was rendered as a directive
C9_WitnessCel ==
    /\ last.op = "to_cel"
    /\ last.self.cls = "TernaryExpression"
    /\ last.self.if_true = PyInt(1)
    /\ last.self.test.right = PyStr(<<"y">>)

---------------------------------------------------------------------------
(* The manifest tree. Besides Python values and expressions a node is       *)
(*   a dict      [t |-> "dict", v |-> <<<<key, node>>, ...>>]  (insertion   *)
(*               order; keys are TLA+ strings)                              *)
(*   a list      [t |-> "seq",  v |-> <<node, ...>>]                        *)
(*   an Enum     [t |-> "enum", v |-> the member's value]                   *)
(*   a Sentinel  [t |-> "sentinel", v |-> 0]                                *)
(*   a dataclass [cls |-> class, fields |-> <<<<name, node>>, ...>>]        *)

Dict(pairs) == [t |-> "dict", v |-> pairs]
PySeq(items) == [t |-> "seq", v |-> items]
Enum(member) == [t |-> "enum", v |-> member]
Sentinel == [t |-> "sentinel", v |-> 0]
Dataclass(cls, fields) == [cls |-> cls, fields |-> fields]

DictHas(d, key) == \E i \in 1..Len(d.v) : d.v[i][1] = key
DictGet(d, key) == d.v[CHOOSE i \in 1..Len(d.v) : d.v[i][1] = key][2]
\* d[key] = val: a key already present keeps its place
DictSet(d, key, val) ==
    IF DictHas(d, key)
    THEN Dict([i \in 1..Len(d.v) |-> IF d.v[i][1] = key THEN <<key, val>> ELSE d.v[i]])
    ELSE Dict(Append(d.v, <<key, val>>))

IsValue(d) == "t" \in DOMAIN d
IsNoneNode(d) == IsValue(d) /\ d.t = "none"
IsErrorNode(d) == IsValue(d) /\ d.t = "error"
\* isinstance(data, Enum), isinstance(data, Expression), is_dataclass(data)
IsEnum(d) == IsValue(d) /\ d.t = "enum"
IsExpr(d) == ~IsValue(d) /\ IsExpression(d)
is_dataclass(d) == ~IsValue(d)

StrV1alpha1 == <<"v", "1", "a", "l", "p", "h", "a", "1">>
StrGcfv2 == <<"g", "c", "f", "v", "2">>

\* TextInput(), the default of Param.input
TextInput ==
    Dataclass("TextInput", <<<<"example", None>>, <<"validation_regex", None>>,
                             <<"validation_error_message", None>>>>)

\* dataclasses.fields(data) with the value of each
FieldsOf(d) ==
    IF "fields" \in DOMAIN d THEN d.fields
    ELSE IF d.cls = "CompareExpression"
    THEN <<<<"comparator", PyStr(d.comparator)>>, <<"left", d.left>>,
           <<"right", d.right>>>>
    ELSE IF d.cls = "TernaryExpression"
    THEN <<<<"test", d.test>>, <<"if_true", d.if_true>>, <<"if_false", d.if_false>>>>
    ELSE IF d.cls = "SecretParam"
    THEN <<<<"name", PyStr(d.name)>>, <<"label", d.label>>,
           <<"description", d.description>>, <<"immutable", d.immutable>>>>
    ELSE <<<<"name", PyStr(d.name)>>, <<"default", d.default>>, <<"label", d.label>>,
           <<"description", d.description>>, <<"immutable", d.immutable>>,
           <<"input", TextInput>>>>

GetField(d, name) ==
    LET fs == FieldsOf(d)
    IN  fs[CHOOSE i \in 1..Len(fs) : fs[i][1] = name][2]

EndpointFields ==
    <<"entryPoint", "region", "platform", "availableMemoryMb", "maxInstances",
      "minInstances", "concurrency", "serviceAccountEmail", "timeoutSeconds", "cpu",
      "vpc", "labels", "ingressSettings", "secretEnvironmentVariables",
      "httpsTrigger", "callableTrigger", "eventTrigger", "scheduleTrigger",
      "blockingTrigger">>

EndpointDefault(field) ==
    IF field \in {"region", "secretEnvironmentVariables"} THEN PySeq(<<>>)
    ELSE IF field = "platform" THEN PyStr(StrGcfv2)
    ELSE None

\* ManifestEndpoint(**given): given maps some field names to nodes
ManifestEndpoint(given) ==
    Dataclass("ManifestEndpoint",
              [i \in 1..Len(EndpointFields) |->
                  <<EndpointFields[i],
                    IF EndpointFields[i] \in DOMAIN given THEN given[EndpointFields[i]]
                    ELSE EndpointDefault(EndpointFields[i])>>])

\* ManifestStack(endpoints=endpoints, params=paramList)
ManifestStack(endpoints, paramList) ==
    Dataclass("ManifestStack",
              <<<<"endpoints", endpoints>>, <<"specVersion", PyStr(StrV1alpha1)>>,
                <<"params", paramList>>, <<"requiredAPIs", PySeq(<<>>)>>>>)

---------------------------------------------------------------------------
(* The serializer *)

RECURSIVE _object_to_spec(_)
RECURSIVE _dict_factory(_)
RECURSIVE _dataclass_to_spec(_)
RECURSIVE MapObjectToSpec(_)
RECURSIVE DictFactoryLoop(_, _)
RECURSIVE DataclassLoop(_, _)

\* the loop of _dict_factory without the test for None
DictFactoryLoopKeepNone(data, out) ==
    IF Len(data) = 0 THEN out
    ELSE DictFactoryLoop(Tail(data),
                         DictSet(out, data[1][1], _object_to_spec(data[1][2])))

\* the loop of _dict_factory: an entry whose value is None is left out
DictFactoryLoop(data, out) ==
    IF Len(data) = 0 THEN out
    ELSE DictFactoryLoop(Tail(data),
             IF ~IsNoneNode(data[1][2])
             THEN DictSet(out, data[1][1], _object_to_spec(data[1][2]))
             ELSE out)

_dict_factory(data) == DictFactoryLoop(data, Dict(<<>>))

_dict_to_spec(data) == _dict_factory(data.v)

\* the loop of _dataclass_to_spec: a field converted to None is left out
DataclassLoop(fields, out) ==
    IF Len(fields) = 0 THEN out
    ELSE LET val == _object_to_spec(fields[1][2])
         IN  DataclassLoop(Tail(fields),
                 IF ~IsNoneNode(val) THEN DictSet(out, fields[1][1], val) ELSE out)

_dataclass_to_spec(data) == DataclassLoop(FieldsOf(data), Dict(<<>>))

\* list(map(_object_to_spec, items))
MapObjectToSpec(items) ==
    IF Len(items) = 0 THEN <<>>
    ELSE <<_object_to_spec(items[1])>> \o MapObjectToSpec(Tail(items))

\* _object_to_spec serializing the value of an expression
_object_to_specEvaluated(data) ==
    IF IsEnum(data) THEN data.v
    ELSE IF IsExpr(data) THEN value(data, environ)
    ELSE IF is_dataclass(data) THEN _dataclass_to_spec(data)
    ELSE IF data.t = "seq" THEN PySeq(MapObjectToSpec(data.v))
    ELSE IF data.t = "dict" THEN _dict_to_spec(data)
    ELSE data

\* _object_to_spec without the Expression branch: an expression is a dataclass
_object_to_specNoExpression(data) ==
    IF IsEnum(data) THEN data.v
    ELSE IF is_dataclass(data) THEN _dataclass_to_spec(data)
    ELSE IF data.t = "seq" THEN PySeq(MapObjectToSpec(data.v))
    ELSE IF data.t = "dict" THEN _dict_to_spec(data)
    ELSE data

_object_to_spec(data) ==
    IF IsEnum(data) THEN data.v
    ELSE IF IsExpr(data) THEN PyStr(to_cel(data))
    ELSE IF is_dataclass(data) THEN _dataclass_to_spec(data)
    ELSE IF data.t = "seq" THEN PySeq(MapObjectToSpec(data.v))
    ELSE IF data.t = "dict" THEN _dict_to_spec(data)
    ELSE data

StrBoolean == <<"b", "o", "o", "l", "e", "a", "n">>
StrInt == <<"i", "n", "t">>
StrFloat == <<"f", "l", "o", "a", "t">>
StrSecret == <<"s", "e", "c", "r", "e", "t">>
StrList == <<"l", "i", "s", "t">>
StrString == <<"s", "t", "r", "i", "n", "g">>

\* _param_to_spec leaving a list default as it is
ParamSpecDictNoJoin(param) ==
    LET base == Dict(<<<<"name", PyStr(param.name)>>, <<"label", param.label>>,
                       <<"description", param.description>>,
                       <<"immutable", param.immutable>>>>)
        spec_dict == IF IsParam(param) THEN DictSet(base, "default", param.default)
                     ELSE base
    IN  IF param.cls = "BoolParam" THEN DictSet(spec_dict, "type", PyStr(StrBoolean))
        ELSE IF param.cls = "IntParam" THEN DictSet(spec_dict, "type", PyStr(StrInt))
        ELSE IF param.cls = "FloatParam" THEN DictSet(spec_dict, "type", PyStr(StrFloat))
        ELSE IF param.cls = "SecretParam" THEN DictSet(spec_dict, "type", PyStr(StrSecret))
        ELSE IF param.cls = "ListParam" THEN DictSet(spec_dict, "type", PyStr(StrList))
        ELSE IF IsStringParam(param) THEN DictSet(spec_dict, "type", PyStr(StrString))
        ELSE Raise(<<"NotImplementedError">>)

\* the dict of _param_to_spec before its conversion, or what it raises
ParamSpecDict(param) ==
    LET base == Dict(<<<<"name", PyStr(param.name)>>, <<"label", param.label>>,
                       <<"description", param.description>>,
                       <<"immutable", param.immutable>>>>)
        spec_dict == IF IsParam(param) THEN DictSet(base, "default", param.default)
                     ELSE base
    IN  IF param.cls = "BoolParam" THEN DictSet(spec_dict, "type", PyStr(StrBoolean))
        ELSE IF param.cls = "IntParam" THEN DictSet(spec_dict, "type", PyStr(StrInt))
        ELSE IF param.cls = "FloatParam" THEN DictSet(spec_dict, "type", PyStr(StrFloat))
        ELSE IF param.cls = "SecretParam" THEN DictSet(spec_dict, "type", PyStr(StrSecret))
        ELSE IF param.cls = "ListParam"
        THEN LET typed == DictSet(spec_dict, "type", PyStr(StrList))
             IN  IF ~IsNoneNode(DictGet(typed, "default"))
                 THEN DictSet(typed, "default",
                              PyStr(Join(DictGet(typed, "default").v, <<",">>)))
                 ELSE typed
        ELSE IF IsStringParam(param) THEN DictSet(spec_dict, "type", PyStr(StrString))
        ELSE Raise(<<"NotImplementedError">>)

_param_to_spec(param) ==
    LET spec_dict == ParamSpecDict(param)
    IN  IF IsErrorNode(spec_dict) THEN spec_dict ELSE _dict_to_spec(spec_dict)

\* list(map(_param_to_spec, paramList)): the first exception ends it
RECURSIVE MapParamToSpec(_, _)
MapParamToSpec(paramList, done) ==
    IF Len(paramList) = 0 THEN PySeq(done)
    ELSE LET one == _param_to_spec(paramList[1])
         IN  IF IsErrorNode(one) THEN one
             ELSE MapParamToSpec(Tail(paramList), Append(done, one))

manifest_to_spec_dict(stack) ==
    LET paramList == GetField(stack, "params")
        out == _dataclass_to_spec(stack)
    IN  IF ~IsNoneNode(paramList)
        THEN LET specs == MapParamToSpec(paramList.v, <<>>)
             IN  IF IsErrorNode(specs) THEN specs ELSE DictSet(out, "params", specs)
        ELSE out

---------------------------------------------------------------------------
(* Manifests given to the serializer *)

NameS == <<"S">>
NameL == <<"L">>
NameK == <<"K">>
NameB == <<"B">>
NameF == <<"F">>
NameP == <<"P">>
NameExt == <<"E", "X", "T", "_", "I", "N", "S", "T", "A", "N", "C", "E", "_", "I", "D">>

\* the param objects of the codebase, by number
ParamObject(i) ==
    IF i = 1 THEN NewParam("IntParam", NameX, PyInt(5), None)
    ELSE IF i = 2 THEN NewParam("StringParam", NameS, None, PyStr(<<"a">>))
    ELSE IF i = 3 THEN NewParam("ListParam", NameL, PyList(<<StrA, StrB>>), None)
    ELSE IF i = 4 THEN NewSecretParam(NameK, None)
    ELSE IF i = 5 THEN NewParam("BoolParam", NameB, PyBool(FALSE), None)
    ELSE IF i = 6 THEN NewParam("FloatParam", NameF, None, None)
    ELSE IF i = 7 THEN NewParam("ListParam", NameY, PyList(<<>>), None)
    ELSE IF i = 8 THEN NewParam("Param", NameP, None, None)
    ELSE NewParam("_DefaultStringParam", NameExt, PyStr(<<>>), None)

ParamNumbers == 1..9

\* the registry after the objects were constructed in order
RECURSIVE RegistryAfter(_)
RegistryAfter(n) ==
    IF n = 0 THEN <<>>
    ELSE IF ParamObject(n).cls = "SecretParam"
    THEN SecretParam_post_init(ParamObject(n), RegistryAfter(n - 1)).registry
    ELSE Param_post_init(ParamObject(n), RegistryAfter(n - 1)).registry

\* the expressions placed in the tree
ExprNumbers == 1..3
ExprInput(i) ==
    IF i = 1 THEN ParamObject(1)
    ELSE IF i = 2 THEN equals(ParamObject(2), PyStr(<<"y">>))
    ELSE then(compare(ParamObject(1), OpGt, PyInt(3)), PyStr(StrA), PyStr(StrB))

\* availableMemoryMb
MemoryNumbers == 1..5
MemoryInput(i, e) ==
    IF i = 1 THEN None
    ELSE IF i = 2 THEN Sentinel
    ELSE IF i = 3 THEN PyInt(256)
    ELSE IF i = 4 THEN e
    ELSE Enum(PyInt(512))

\* eventTrigger: an EventTrigger mapping
TriggerNumbers == 1..3
TriggerInput(i, e) ==
    IF i = 1 THEN None
    ELSE IF i = 2
    THEN Dict(<<<<"eventFilters", Dict(<<<<"bucket", e>>>>)>>, <<"channel", None>>,
               <<"eventType", PyStr(<<"x">>)>>, <<"retry", e>>>>)
    ELSE Dict(<<<<"eventFilters", Dict(<<<<"bucket", PyStr(StrB)>>>>)>>,
               <<"eventType", PyStr(<<"x">>)>>, <<"retry", PyBool(FALSE)>>>>)

\* vpc: a VpcSettings mapping
VpcNumbers == 1..3
VpcInput(i) ==
    IF i = 1 THEN None
    ELSE IF i = 2
    THEN Dict(<<<<"connector", PyStr(<<"c">>)>>, <<"egressSettings", Sentinel>>>>)
    ELSE Dict(<<<<"connector", PyStr(<<"c">>)>>, <<"egressSettings", None>>>>)

EndpointInput(e, m, t, v) ==
    ManifestEndpoint(("entryPoint" :> PyStr(<<"f">>))
                     @@ ("availableMemoryMb" :> MemoryInput(m, ExprInput(e)))
                     @@ ("eventTrigger" :> TriggerInput(t, ExprInput(e)))
                     @@ ("vpc" :> VpcInput(v)))

\* the longest params list given to a stack
MaxParamList == 2

\* the lists of at most MaxParamList param objects, as lists of numbers
ParamLists == UNION {[1..n -> ParamNumbers] : n \in 0..MaxParamList}

ParamListInput(l) == PySeq([i \in 1..Len(l) |-> ParamObject(l[i])])

---------------------------------------------------------------------------
(* The serializer as an operation *)

\* served = manifest_to_spec_dict(manifest): nothing is assigned when it raises.
\* converted is the stack as _dataclass_to_spec returns it, before the params
\* entry is replaced.
ManifestToSpec ==
    LET out == manifest_to_spec_dict(manifest)
    IN  /\ last' = [op |-> "to_spec", converted |-> _dataclass_to_spec(manifest),
                    out |-> out]
        /\ served' = IF IsErrorNode(out) THEN served ELSE out
        /\ UNCHANGED <<params, environ, manifest, threads>>

ManifestEnvValues == {<<"1">>, <<"7">>}

\* all params are registered; the stack holds one endpoint and no params, or
\* no endpoint and a list of params, or neither and no params field
InitManifest ==
    /\ params = RegistryAfter(Cardinality(ParamNumbers))
    /\ environ = <<>>
    /\ \/ \E e \in ExprNumbers, m \in MemoryNumbers,
             t \in TriggerNumbers, v \in VpcNumbers :
              manifest = ManifestStack(Dict(<<<<"f", EndpointInput(e, m, t, v)>>>>),
                                       PySeq(<<>>))
       \/ \E l \in ParamLists : manifest = ManifestStack(Dict(<<>>), ParamListInput(l))
       \/ manifest = ManifestStack(Dict(<<>>), None)
    /\ served = None
    /\ threads = NoThreads
    /\ last = NoCall

NextManifest ==
    \/ \E v \in ManifestEnvValues : SetEnv(NameX, v)
    \/ DelEnv(NameX)
    \/ ManifestToSpec

SpecManifest == InitManifest /\ [][NextManifest]_vars

---------------------------------------------------------------------------
(* Claims about the serializer *)

\* the entries of a dataclass or of a dict, as <<key, node>>
Entries(d) == IF IsValue(d) THEN d.v ELSE d.fields
IsRecordOrDict(d) == IF IsValue(d) THEN d.t = "dict" ELSE "fields" \in DOMAIN d
IsSeqNode(d) == IsValue(d) /\ d.t = "seq"
IsExpressionNode(d) == ~IsValue(d) /\ "fields" \notin DOMAIN d

Directive(e) == PyStr(<<"{", "{", " ">> \o Rendered(e) \o <<" ", "}", "}">>)

\* wherever tree holds an expression, out holds its directive text
RECURSIVE ExprsRendered(_, _)
ExprsRendered(tree, out) ==
    IF IsExpressionNode(tree) THEN out = Directive(tree)
    ELSE IF IsRecordOrDict(tree)
    THEN \A i \in 1..Len(Entries(tree)) :
             LET key == Entries(tree)[i][1]
                 sub == Entries(tree)[i][2]
             IN  IF IsNoneNode(sub) THEN TRUE
                 ELSE DictHas(out, key) /\ ExprsRendered(sub, DictGet(out, key))
    ELSE IF IsSeqNode(tree)
    THEN /\ Len(out.v) = Len(tree.v)
         /\ \A i \in 1..Len(tree.v) : ExprsRendered(tree.v[i], out.v[i])
    ELSE TRUE

ReservedToken == [t |-> "sentinel", v |-> 0]
LegalFieldTypes == {"str", "int", "bool", "float", "list", "seq", "dict"}

\* an absent entry of tree has no key in out and a Sentinel entry has its
\* key, holding the reserved token, at every depth
RECURSIVE AbsentDroppedSentinelKept(_, _)
AbsentDroppedSentinelKept(tree, out) ==
    IF IsExpressionNode(tree) THEN TRUE
    ELSE IF IsRecordOrDict(tree)
    THEN \A i \in 1..Len(Entries(tree)) :
             LET key == Entries(tree)[i][1]
                 sub == Entries(tree)[i][2]
             IN  IF IsNoneNode(sub) THEN ~DictHas(out, key)
                 ELSE /\ DictHas(out, key)
                      /\ IF IsValue(sub) /\ sub.t = "sentinel"
                         THEN DictGet(out, key) = ReservedToken
                         ELSE AbsentDroppedSentinelKept(sub, DictGet(out, key))
    ELSE IF IsSeqNode(tree)
    THEN \A i \in 1..Len(tree.v) :
             i <= Len(out.v) /\ AbsentDroppedSentinelKept(tree.v[i], out.v[i])
    ELSE TRUE

TypeTag(cls) ==
    IF cls = "BoolParam" THEN <<"b", "o", "o", "l", "e", "a", "n">>
    ELSE IF cls = "IntParam" THEN <<"i", "n", "t">>
    ELSE IF cls = "FloatParam" THEN <<"f", "l", "o", "a", "t">>
    ELSE IF cls = "SecretParam" THEN <<"s", "e", "c", "r", "e", "t">>
    ELSE IF cls = "ListParam" THEN <<"l", "i", "s", "t">>
    ELSE <<"s", "t", "r", "i", "n", "g">>

Recognized(p) == p.cls \in ValueTypes \cup {"_DefaultStringParam"}

RECURSIVE TotalLen(_)
TotalLen(l) == IF Len(l) = 0 THEN 0 ELSE Len(l[1]) + TotalLen(Tail(l))

\* text is the elements of l with one "," between neighbours
IsCommaJoined(text, l) ==
    /\ IsSegmentsOf(l, text)
    /\ Len(text) = TotalLen(l) + (IF Len(l) = 0 THEN 0 ELSE Len(l) - 1)

\* d is the spec of param p
IsParamSpec(d, p) ==
    /\ DictHas(d, "name") /\ DictGet(d, "name") = PyStr(p.name)
    /\ DictHas(d, "type") /\ DictGet(d, "type") = PyStr(TypeTag(p.cls))
    /\ DictHas(d, "default") <=> HasDefault(p)
    /\ HasDefault(p) =>
           IF p.cls = "ListParam"
           THEN /\ DictGet(d, "default").t = "str"
                /\ IsCommaJoined(DictGet(d, "default").v, p.default.v)
                /\ p.default = PyList(<<StrA, StrB>>) =>
                       DictGet(d, "default") = PyStr(<<"a", ",", "b">>)
           ELSE DictGet(d, "default") = p.default

StackParams == GetField(manifest, "params")

\* C7: the params entry of the output is the list of the specs of the
\* stack's params, one per param in the same order. Each spec has name and the
\* type tag of the param's variant (boolean, int, float, secret, list,
\* string), has default exactly when the param has one, a List default being
\* its elements joined by "," (["a","b"] becomes "a,b"); a param of an
\* unrecognized variant makes the conversion fail with no output.
C7_ParamSpecs ==
    (last.op = "to_spec" /\ ~IsNoneNode(StackParams)) =>
        IF \E i \in 1..Len(StackParams.v) : ~Recognized(StackParams.v[i])
        THEN IsErrorNode(last.out) /\ IsNoneNode(served)
        ELSE /\ ~IsErrorNode(last.out)
             /\ served = last.out
             /\ DictHas(last.out, "params")
             /\ Len(DictGet(last.out, "params").v) = Len(StackParams.v)
             /\ \A i \in 1..Len(StackParams.v) :
                    IsParamSpec(DictGet(last.out, "params").v[i], StackParams.v[i])

\* the stack's params were ListParam L with default ["a","b"] and then the
\* secret K; the specs came out in that order, the first with default "a,b"
\* and the second without default
C7_Witness ==
    /\ last.op = "to_spec"
    /\ ~IsNoneNode(StackParams)
    /\ Len(StackParams.v) = 2
    /\ StackParams.v[1] = ParamObject(3)
    /\ StackParams.v[2] = ParamObject(4)
    /\ DictGet(DictGet(last.out, "params").v[1], "default") = PyStr(<<"a", ",", "b">>)
    /\ ~DictHas(DictGet(last.out, "params").v[2], "default")

\* a stack with a plain Param in its params failed and served nothing
C7_WitnessUnrecognized ==
    /\ last.op = "to_spec"
    /\ ~IsNoneNode(StackParams)
    /\ \E i \in 1..Len(StackParams.v) : StackParams.v[i].cls = "Param"
    /\ last.out = Raise(<<"NotImplementedError">>)
    /\ IsNoneNode(served)

---------------------------------------------------------------------------
(* Constructors called from several threads *)

\* Neither __post_init__ takes a lock, and the interpreter may switch threads
\* between any two statements: the name test, the membership test and the
\* insertion of one constructor are separate steps.  threads[t] is where
\* thread t stands in the constructor it is running:
\*   "idle"    outside a constructor
\*   "match"   before  if not _re.match(...)
\*   "check"   before  if self.name in _params
\*   "insert"  before  _params[self.name] = self
\*   "done"    the constructor returned (out = None) or raised (out)

NumThreads == 2
Threads == 1..NumThreads

Idle == [pc |-> "idle", self |-> None, out |-> None]

ThreadNames == ValidNames \cup {<<"x">>}

\* the objects a thread constructs: IntParam(name, default=...), SecretParam(name)
ThreadParams ==
    {NewParam("IntParam", name, default, None) :
         name \in ThreadNames, default \in DefaultsOf("IntParam")}
ThreadSecretParams == {NewSecretParam(name, None) : name \in ThreadNames}

At(t, pc) == threads[t].pc = pc

Goto(t, pc, out) ==
    threads' = [threads EXCEPT ![t] = [pc |-> pc, self |-> threads[t].self,
                                        out |-> out]]

\* the dataclass __init__ has set the fields and calls __post_init__
Begin(t, self) ==
    /\ At(t, "idle")
    /\ threads' = [threads EXCEPT ![t] = [pc |-> "match", self |-> self,
                                          out |-> None]]
    /\ UNCHANGED <<params, environ, manifest, served, last>>

\* if not _re.match(r"^[A-Z0-9_]+$", self.name): raise ValueError(...)
MatchName(t) ==
    /\ At(t, "match")
    /\ IF NameMatches(threads[t].self.name)
       THEN Goto(t, "check", None)
       ELSE Goto(t, "done", ErrName)
    /\ UNCHANGED <<params, environ, manifest, served, last>>

\* if self.name in _params: raise ValueError(...)
CheckMember(t) ==
    /\ At(t, "check")
    /\ IF threads[t].self.name \in DOMAIN params
       THEN Goto(t, "done", ErrDuplicate)
       ELSE Goto(t, "insert", None)
    /\ UNCHANGED <<params, environ, manifest, served, last>>

\* _params[self.name] = self
Insert(t) ==
    /\ At(t, "insert")
    /\ params' = (threads[t].self.name :> threads[t].self) @@ params
    /\ Goto(t, "done", None)
    /\ UNCHANGED <<environ, manifest, served, last>>

\* the caller has the object or the exception; the thread goes on
Return(t) ==
    /\ At(t, "done")
    /\ threads' = [threads EXCEPT ![t] = Idle]
    /\ UNCHANGED <<params, environ, manifest, served, last>>

InitThreads ==
    /\ params = <<>>
    /\ environ = <<>>
    /\ manifest = None
    /\ served = None
    /\ last = NoCall
    /\ threads = [t \in Threads |-> Idle]

NextThreads ==
    \/ \E t \in Threads, self \in ThreadParams : Begin(t, self)
    \/ \E t \in Threads, self \in ThreadSecretParams : Begin(t, self)
    \/ \E t \in Threads : MatchName(t)
    \/ \E t \in Threads : CheckMember(t)
    \/ \E t \in Threads : Insert(t)
    \/ \E t \in Threads : Return(t)

SpecThreads == InitThreads /\ [][NextThreads]_vars

---------------------------------------------------------------------------
(* C11 *)

Succeeded(t) == At(t, "done") /\ IsNone(threads[t].out)

SameValidName(t1, t2) ==
    /\ threads[t1].pc # "idle" /\ threads[t2].pc # "idle"
    /\ threads[t1].self.name = threads[t2].self.name
    /\ NameMatches(threads[t1].self.name)

AtMostOneSucceeds ==
    \A t1, t2 \in Threads :
        (t1 # t2 /\ SameValidName(t1, t2)) => ~(Succeeded(t1) /\ Succeeded(t2))

EntriesKept ==
    \A n \in DOMAIN params : n \in DOMAIN params' /\ params'[n] = params[n]

\* C11: when two threads construct params with the same valid name at the
\* same time, under every interleaving of their membership tests and
\* insertions at most one of the two constructors succeeds, and no step
\* replaces an entry that the registry already holds.
C11_ConcurrentDuplicateRejected ==
    /\ []AtMostOneSucceeds
    /\ [][EntriesKept]_vars

====
